---- MODULE Spec2Model ----
(***************************************************************************)
(* A model of medcat/utils/regression/targeting.py:                        *)
(*   - TypedFilter / CUIWithChildFilter construction, to_dict, from_dict   *)
(*   - TranslationLayer.has_child_of / has_parent_of                       *)
(*   - the generators TypedFilter.get_applicable_targets and               *)
(*     CUIWithChildFilter.get_applicable_targets / get_children_of         *)
(***************************************************************************)
EXTENDS Integers, Sequences, FiniteSets, TLC

\* ------------------------------------------------------------------ bounds
MaxVals == 2       \* longest list of values of a filter
MaxDepth == 2      \* largest depth of a hierarchical filter
MaxKeys == 2       \* most keys of a dict handed to from_dict

\* ------------------------------------------------------------- vocabulary
Vals == {"A", "B"}

\* class FilterType(Enum): the member names
FilterType == {"TYPE_ID", "CUI", "NAME", "CUI_AND_CHILDREN"}

\* strings a configuration may use to name a filter type
TypeNames == FilterType \cup {"type_id", "cui", "name", "cui_and_children", "bogus"}

NoMatch == "<no match>"

\* FilterType.match_str -> loosely_match_enum(FilterType, name): the member
\* whose name equals the given one up to case, or no member at all
match_str(name) ==
    CASE name \in {"TYPE_ID", "type_id"} -> "TYPE_ID"
      [] name \in {"CUI", "cui"} -> "CUI"
      [] name \in {"NAME", "name"} -> "NAME"
      [] name \in {"CUI_AND_CHILDREN", "cui_and_children"} -> "CUI_AND_CHILDREN"
      [] OTHER -> NoMatch

\* ----------------------------------------------------------------- values
NoFilter == [cls |-> "None"]
NoDict == [cls |-> "None"]
NoResult == [cls |-> "None"]

\* an exception leaving a call
Raise(exc) == [cls |-> "Error", exc |-> exc]

IsError(r) == r.cls = "Error"

IsFilter(r) == r.cls \in {"TypedFilter", "CUIWithChildFilter"}

\* TypedFilter(type=..., values=...): the two declared fields
TypedFilter(type, values) ==
    [cls |-> "TypedFilter", type |-> type, values |-> values]

\* CUIWithChildFilter(type=..., delegate=..., depth=..., values=...): the
\* fields of TypedFilter and the two added ones; the class declares no
\* validator, so every delegate is accepted
CUIWithChildFilter(type, delegate, depth, values) ==
    [cls |-> "CUIWithChildFilter", type |-> type, values |-> values,
     delegate |-> delegate, depth |-> depth]

\* the values one_from_input takes: Union[str, list, dict]
Str(s) == [k |-> "str", s |-> s]
List(l) == [k |-> "list", l |-> l]
Dict(d) == [k |-> "dict", d |-> d]

SeqsUpTo(S, n) == UNION {[1..m -> S] : m \in 0..n}

ValueLists == SeqsUpTo(Vals, MaxVals)

CfgDepths == 0..MaxDepth

RawLeaf == {Str(s) : s \in Vals} \cup {List(l) : l \in ValueLists}

RawMap0 == {Dict([depth |-> d, cui |-> c]) : d \in CfgDepths, c \in RawLeaf}

\* mappings that lack one of the two keys
RawMapBad == {Dict([depth |-> 1]), Dict([cui |-> Str("A")])}

RawMap1 == {Dict([depth |-> d, cui |-> c]) : d \in CfgDepths, c \in RawMap0 \cup RawMapBad}

Raw == RawLeaf \cup RawMap0 \cup RawMap1 \cup RawMapBad

\* one_from_input building the delegate as a plain CUI filter
RECURSIVE one_from_input_cui_delegate(_, _)
one_from_input_cui_delegate(target_type, vals) ==
    LET t_type == match_str(target_type) IN
    IF t_type = NoMatch THEN Raise("ConfigurationError")
    ELSE IF vals.k = "dict"
    THEN IF t_type # "CUI_AND_CHILDREN" THEN Raise("ValueError")
         ELSE IF "depth" \notin DOMAIN vals.d THEN Raise("KeyError")
         ELSE IF "cui" \notin DOMAIN vals.d THEN Raise("KeyError")
         ELSE LET depth == vals.d.depth
                  delegate == one_from_input_cui_delegate("CUI", vals.d.cui)
              IN  IF IsError(delegate) THEN delegate
                  ELSE CUIWithChildFilter(t_type, delegate, depth, <<>>)
    ELSE TypedFilter(t_type, IF vals.k = "str" THEN <<vals.s>> ELSE vals.l)

\* one_from_input without the check of the type of a mapping-valued input
RECURSIVE one_from_input_any_dict(_, _)
one_from_input_any_dict(target_type, vals) ==
    LET t_type == match_str(target_type) IN
    IF t_type = NoMatch THEN Raise("ConfigurationError")
    ELSE IF vals.k = "dict"
    THEN IF "depth" \notin DOMAIN vals.d THEN Raise("KeyError")
         ELSE IF "cui" \notin DOMAIN vals.d THEN Raise("KeyError")
         ELSE LET depth == vals.d.depth
                  delegate == one_from_input_any_dict(target_type, vals.d.cui)
              IN  IF IsError(delegate) THEN delegate
                  ELSE CUIWithChildFilter(t_type, delegate, depth, <<>>)
    ELSE TypedFilter(t_type, IF vals.k = "str" THEN <<vals.s>> ELSE vals.l)

\* TypedFilter.one_from_input
RECURSIVE one_from_input(_, _)
one_from_input(target_type, vals) ==
    LET t_type == match_str(target_type) IN
    IF t_type = NoMatch THEN Raise("ConfigurationError")
    ELSE IF vals.k = "dict"
    THEN IF t_type # "CUI_AND_CHILDREN" THEN Raise("ValueError")
         ELSE IF "depth" \notin DOMAIN vals.d THEN Raise("KeyError")
         ELSE IF "cui" \notin DOMAIN vals.d THEN Raise("KeyError")
         ELSE LET depth == vals.d.depth
                  delegate == one_from_input(target_type, vals.d.cui)
              IN  IF IsError(delegate) THEN delegate
                  ELSE CUIWithChildFilter(t_type, delegate, depth, <<>>)
    ELSE TypedFilter(t_type, IF vals.k = "str" THEN <<vals.s>> ELSE vals.l)

\* to_dict of the hierarchical filter writing its own values
to_dict_own_values(f) ==
    IF f.cls = "CUIWithChildFilter"
    THEN << <<f.type, Dict([depth |-> f.depth, cui |-> List(f.values)])>> >>
    ELSE << <<f.type, List(f.values)>> >>

\* TypedFilter.to_dict and its override CUIWithChildFilter.to_dict; a dict
\* is the sequence of its (key, value) pairs in insertion order
to_dict(f) ==
    IF f.cls = "CUIWithChildFilter"
    THEN << <<f.type, Dict([depth |-> f.depth, cui |-> List(f.delegate.values)])>> >>
    ELSE << <<f.type, List(f.values)>> >>

\* TypedFilter.from_dict: one filter per key, the first exception leaves
RECURSIVE from_dict_loop(_, _)
from_dict_loop(input, parsed_targets) ==
    IF input = <<>> THEN [cls |-> "List", items |-> parsed_targets]
    ELSE LET filt == one_from_input(Head(input)[1], Head(input)[2])
         IN  IF IsError(filt) THEN filt
             ELSE from_dict_loop(Tail(input), Append(parsed_targets, filt))

from_dict(input) == from_dict_loop(input, <<>>)

\* ------------------------------------------------- configuration machine
VARIABLES cur,      \* the filter last constructed, or the exception raised
          path,     \* how cur was constructed
          inp,      \* the arguments of the last one_from_input call
          ser,      \* the dict last produced by to_dict or loaded
          src,      \* the filter ser was produced from
          parsed    \* the result of from_dict(ser)

cfgvars == <<cur, path, inp, ser, src, parsed>>

NoInput == [tt |-> "", vals |-> List(<<>>)]

BaseFilters == {TypedFilter(t, v) : t \in FilterType, v \in ValueLists}

NestedDelegates ==
    {CUIWithChildFilter("CUI_AND_CHILDREN", TypedFilter("CUI_AND_CHILDREN", <<"A">>), 1, <<>>)}

OwnValues == {<<>>, <<"A">>}

CfgKeys == FilterType \cup {"cui", "bogus"}

DictVals ==
    {Str("A"), List(<<>>), List(<<"A", "B">>), Dict([depth |-> 1, cui |-> Str("A")]),
     Dict([depth |-> 2, cui |-> List(<<"B">>)])}

Injective(s) == \A i, j \in DOMAIN s : s[i][1] = s[j][1] => i = j

Dicts == {d \in SeqsUpTo(CfgKeys \X DictVals, MaxKeys) : Injective(d)}

CfgFresh ==
    /\ cur = NoFilter
    /\ path = "none"
    /\ inp = NoInput
    /\ ser = NoDict
    /\ src = NoFilter
    /\ parsed = NoResult


\* TypedFilter(type=t, values=v) called directly
NewTypedFilter ==
    /\ CfgFresh
    /\ \E t \in FilterType, v \in ValueLists :
        /\ cur' = TypedFilter(t, v)
        /\ path' = "direct"
        /\ inp' = NoInput
        /\ ser' = NoDict /\ src' = NoFilter /\ parsed' = NoResult

\* CUIWithChildFilter(type=t, delegate=g, depth=d, values=v) called directly
NewCUIWithChildFilter ==
    /\ CfgFresh
    /\ \E t \in FilterType, g \in BaseFilters \cup NestedDelegates,
          d \in CfgDepths, v \in OwnValues :
        /\ cur' = CUIWithChildFilter(t, g, d, v)
        /\ path' = "direct"
        /\ inp' = NoInput
        /\ ser' = NoDict /\ src' = NoFilter /\ parsed' = NoResult

\* TypedFilter.one_from_input(tt, vals) called by a client
OneFromInput ==
    /\ CfgFresh
    /\ \E tt \in TypeNames, vals \in Raw :
        /\ cur' = one_from_input(tt, vals)
        /\ path' = "one_from_input"
        /\ inp' = [tt |-> tt, vals |-> vals]
        /\ ser' = NoDict /\ src' = NoFilter /\ parsed' = NoResult

\* cur.to_dict()
ToDict ==
    /\ IsFilter(cur)
    /\ ser' = [cls |-> "Dict", items |-> to_dict(cur)]
    /\ src' = cur
    /\ parsed' = NoResult
    /\ UNCHANGED <<cur, path, inp>>

\* a dict read from a configuration file
LoadDict ==
    /\ CfgFresh
    /\ \E d \in Dicts :
        /\ ser' = [cls |-> "Dict", items |-> d]
        /\ src' = NoFilter
        /\ parsed' = NoResult
        /\ cur' = NoFilter /\ path' = "none" /\ inp' = NoInput

\* TypedFilter.from_dict(ser)
FromDict ==
    /\ ser.cls = "Dict"
    /\ parsed = NoResult
    /\ parsed' = from_dict(ser.items)
    /\ UNCHANGED <<cur, path, inp, ser, src>>

\* the objects are dropped; the next construction starts afresh
Discard ==
    /\ ~CfgFresh
    /\ cur' = NoFilter /\ path' = "none" /\ inp' = NoInput
    /\ ser' = NoDict /\ src' = NoFilter /\ parsed' = NoResult



\* ------------------------------------------------------ ontology lookup
MaxInput == 2      \* longest input sequence handed to a filter

Cuis == {"A", "B", "C"}

Tids == {"T1", "T2"}

\* TargetInfo(cui, val)
TargetInfo(cui, val) == [cui |-> cui, val |-> val]

NoTarget == TargetInfo("", "")

Range(s) == {s[i] : i \in DOMAIN s}

\* A Python set is the sequence of its elements in the order in which the
\* set object iterates; the order of a set that is not modified never changes.
Perms(S) == {p \in [1..Cardinality(S) -> S] : Range(p) = S}

\* TranslationLayer.__init__: the four dicts are kept (name2cuis is read by
\* no method and is left out); every CUI that has names and no children
\* entry gets the empty set of children
TranslationLayer(cui2names, cui2type_ids, cui2children) ==
    [cui2names |-> cui2names,
     cui2type_ids |-> cui2type_ids,
     cui2children |-> [c \in DOMAIN cui2children \cup DOMAIN cui2names |->
                          IF c \in DOMAIN cui2children THEN cui2children[c] ELSE <<>>]]

\* the names tables: every CUI named, C under two names, or B unknown to the
\* names table and the two names of C in the other order
NameTables ==
    {[c \in Cuis |-> CASE c = "A" -> <<"a">> [] c = "B" -> <<"b">> [] OTHER -> <<"c", "c2">>],
     [c \in {"A", "C"} |-> IF c = "A" THEN <<"a">> ELSE <<"c2", "c">>]}

\* the type_ids tables: A has two types, in either order, C one, B has no
\* entry
TypeTables == {[c \in {"A", "C"} |-> IF c = "A" THEN p ELSE <<"T1">>] : p \in Perms(Tids)}

\* the children tables (pt2ch): A and B each have an entry or none; they
\* hold chains (A -> B -> C), shared descendants and the cycle A -> B -> A
ChildTables ==
    {t \in UNION {[D -> SeqsUpTo(Cuis, 2)] : D \in SUBSET {"A", "B"}} :
        /\ "A" \in DOMAIN t => t["A"] \in {<<"B">>} \cup Perms({"B", "C"})
        /\ "B" \in DOMAIN t => t["B"] \in {<<>>, <<"C">>, <<"A">>}}

Lookups ==
    {TranslationLayer(n, CHOOSE t \in TypeTables : t["A"] = <<"T1", "T2">>, c) :
        n \in NameTables, c \in ChildTables}
    \cup {TranslationLayer(n, CHOOSE t \in TypeTables : t["A"] = <<"T2", "T1">>, <<>>) :
              n \in NameTables}

EmptyLookup == TranslationLayer(<<>>, <<>>, <<>>)

\* --------------------------------------------------- traversal machine
VARIABLES tl,        \* the TranslationLayer
          op,        \* the call in progress and its arguments
          hc_stack,  \* the active calls of has_child_of, innermost last
          hc_ret,    \* the value a has_child_of call has just returned
          hp_rest,   \* has_parent_of: the found_cuis not yet iterated
          result,    \* the value returned to the caller of has_*_of
          flt,       \* the filter whose get_applicable_targets runs
          in_gen,    \* the input sequence
          pulled,    \* how many elements of in_gen have been pulled
          reqs,      \* how many times the consumer has asked for an output
          want,      \* the consumer waits for the next output
          out,       \* the outputs handed out so far
          epc,       \* where the generator stands
          ti,        \* the input element of the current loop iteration
          ti_idx,    \* its position in in_gen
          tids_rest, \* the type_ids of ti not yet iterated
          dcont,     \* where the delegate's generator is suspended
          frames,    \* the active calls of get_children_of, innermost last
          error      \* the exception that ended the evaluation

travvars == <<tl, op, hc_stack, hc_ret, hp_rest, result, flt, in_gen, pulled, reqs,
              want, out, epc, ti, ti_idx, tids_rest, dcont, frames, error>>

hasvars == <<hc_stack, hc_ret, hp_rest, result>>

genvars == <<flt, in_gen, pulled, reqs, want, out, epc, ti, ti_idx, tids_rest, dcont,
             frames, error>>

vars == <<cur, path, inp, ser, src, parsed, tl, op, hc_stack, hc_ret, hp_rest, result,
          flt, in_gen, pulled, reqs, want, out, epc, ti, ti_idx, tids_rest, dcont,
          frames, error>>

Idle == [name |-> "idle"]

HasIdle ==
    /\ hc_stack = <<>>
    /\ hc_ret = "none"
    /\ hp_rest = {}
    /\ result = "none"

GenIdle ==
    /\ flt = NoFilter
    /\ in_gen = <<>>
    /\ pulled = 0
    /\ reqs = 0
    /\ want = FALSE
    /\ out = <<>>
    /\ epc = "none"
    /\ ti = NoTarget
    /\ ti_idx = 0
    /\ tids_rest = <<>>
    /\ dcont = "none"
    /\ frames = <<>>
    /\ error = "none"

TravIdle == op = Idle /\ HasIdle /\ GenIdle

HasDepths == 0..MaxDepth

Bool(b) == IF b THEN "True" ELSE "False"

\* ---------------------------------------- has_child_of / has_parent_of
\* a call of has_child_of that has not yet run its body
HcFrame(found_cuis, cui, depth) ==
    [found_cuis |-> found_cuis, cui |-> cui, depth |-> depth, pc |-> "enter", rest |-> <<>>]

Top(stack) == stack[Len(stack)]

Pop(stack) == SubSeq(stack, 1, Len(stack) - 1)

SetTop(stack, f) == [stack EXCEPT ![Len(stack)] = f]

\* translation.has_child_of(found_cuis, cui, depth) called by a client
CallHasChildOf ==
    /\ op = Idle
    /\ \E found_cuis \in SUBSET Cuis, cui \in Cuis, depth \in HasDepths :
        /\ op' = [name |-> "has_child_of", found_cuis |-> found_cuis,
                  cui |-> cui, depth |-> depth]
        /\ hc_stack' = <<HcFrame(found_cuis, cui, depth)>>
    /\ UNCHANGED <<tl, hc_ret, hp_rest, result, genvars, cfgvars>>

\* translation.has_parent_of(found_cuis, cui, depth) called by a client
CallHasParentOf ==
    /\ op = Idle
    /\ \E found_cuis \in SUBSET Cuis, cui \in Cuis, depth \in HasDepths :
        /\ op' = [name |-> "has_parent_of", found_cuis |-> found_cuis,
                  cui |-> cui, depth |-> depth]
        /\ hp_rest' = found_cuis
    /\ UNCHANGED <<tl, hc_stack, hc_ret, result, genvars, cfgvars>>

\* has_child_of that stops one level too late
HasChildOfBodyDeep ==
    /\ hc_stack # <<>>
    /\ Top(hc_stack).pc = "enter"
    /\ LET f == Top(hc_stack) IN
       IF f.cui \notin DOMAIN tl.cui2children
       THEN hc_stack' = Pop(hc_stack) /\ hc_ret' = "False"
       ELSE LET children == tl.cui2children[f.cui] IN
            IF Range(children) \cap f.found_cuis # {}
            THEN hc_stack' = Pop(hc_stack) /\ hc_ret' = "True"
            ELSE IF f.depth > 0
            THEN /\ hc_stack' = SetTop(hc_stack, [f EXCEPT !.pc = "any", !.rest = children])
                 /\ hc_ret' = "none"
            ELSE hc_stack' = Pop(hc_stack) /\ hc_ret' = "False"
    /\ UNCHANGED <<tl, op, hp_rest, result, genvars, cfgvars>>

\* has_child_of that never looks below the direct children
HasChildOfBodyFlat ==
    /\ hc_stack # <<>>
    /\ Top(hc_stack).pc = "enter"
    /\ LET f == Top(hc_stack) IN
       IF f.cui \notin DOMAIN tl.cui2children
       THEN hc_stack' = Pop(hc_stack) /\ hc_ret' = "False"
       ELSE LET children == tl.cui2children[f.cui] IN
            IF Range(children) \cap f.found_cuis # {}
            THEN hc_stack' = Pop(hc_stack) /\ hc_ret' = "True"
            ELSE hc_stack' = Pop(hc_stack) /\ hc_ret' = "False"
    /\ UNCHANGED <<tl, op, hp_rest, result, genvars, cfgvars>>

\* has_child_of, from its first line to the return or to the start of
\* any(...): no entry -> False; a direct child found -> True; depth > 1 ->
\* iterate the children; else False
HasChildOfBody ==
    /\ hc_stack # <<>>
    /\ Top(hc_stack).pc = "enter"
    /\ LET f == Top(hc_stack) IN
       IF f.cui \notin DOMAIN tl.cui2children
       THEN hc_stack' = Pop(hc_stack) /\ hc_ret' = "False"
       ELSE LET children == tl.cui2children[f.cui] IN
            IF Range(children) \cap f.found_cuis # {}
            THEN hc_stack' = Pop(hc_stack) /\ hc_ret' = "True"
            ELSE IF f.depth > 1
            THEN /\ hc_stack' = SetTop(hc_stack, [f EXCEPT !.pc = "any", !.rest = children])
                 /\ hc_ret' = "none"
            ELSE hc_stack' = Pop(hc_stack) /\ hc_ret' = "False"
    /\ UNCHANGED <<tl, op, hp_rest, result, genvars, cfgvars>>

\* any(self.has_child_of(found_cuis, child, depth - 1) for child in children)
\* asks for its next element: the recursive call for the next child, or
\* False when none is left
HasChildOfAnyNext ==
    /\ hc_stack # <<>>
    /\ Top(hc_stack).pc = "any"
    /\ hc_ret = "none"
    /\ LET f == Top(hc_stack) IN
       IF f.rest = <<>>
       THEN hc_stack' = Pop(hc_stack) /\ hc_ret' = "False"
       ELSE LET child == Head(f.rest) IN
            /\ hc_stack' = Append(SetTop(hc_stack, [f EXCEPT !.rest = Tail(f.rest)]),
                                  HcFrame(f.found_cuis, child, f.depth - 1))
            /\ hc_ret' = "none"
    /\ UNCHANGED <<tl, op, hp_rest, result, genvars, cfgvars>>

\* any(...) receives the value of a recursive call: True ends it
HasChildOfAnyRecv ==
    /\ hc_stack # <<>>
    /\ Top(hc_stack).pc = "any"
    /\ hc_ret # "none"
    /\ IF hc_ret = "True"
       THEN hc_stack' = Pop(hc_stack) /\ hc_ret' = "True"
       ELSE hc_stack' = hc_stack /\ hc_ret' = "none"
    /\ UNCHANGED <<tl, op, hp_rest, result, genvars, cfgvars>>

\* the outermost has_child_of returns to the client
HasChildOfReturn ==
    /\ op.name = "has_child_of"
    /\ hc_stack = <<>>
    /\ hc_ret # "none"
    /\ result = "none"
    /\ result' = hc_ret
    /\ hc_ret' = "none"
    /\ UNCHANGED <<tl, op, hc_stack, hp_rest, genvars, cfgvars>>

\* has_parent_of that forgets to pass the depth on
HasParentOfNextDepth1 ==
    /\ op.name = "has_parent_of"
    /\ hc_stack = <<>>
    /\ hc_ret = "none"
    /\ result = "none"
    /\ IF hp_rest = {}
       THEN result' = "False" /\ UNCHANGED <<hc_stack, hp_rest>>
       ELSE \E found_cui \in hp_rest :
              /\ hp_rest' = hp_rest \ {found_cui}
              /\ hc_stack' = <<HcFrame({op.cui}, found_cui, 1)>>
              /\ result' = "none"
    /\ UNCHANGED <<tl, op, hc_ret, genvars, cfgvars>>

\* has_parent_of: for found_cui in found_cuis, call
\* has_child_of(set([cui]), found_cui, depth=depth); False after the loop
HasParentOfNext ==
    /\ op.name = "has_parent_of"
    /\ hc_stack = <<>>
    /\ hc_ret = "none"
    /\ result = "none"
    /\ IF hp_rest = {}
       THEN result' = "False" /\ UNCHANGED <<hc_stack, hp_rest>>
       ELSE \E found_cui \in hp_rest :
              /\ hp_rest' = hp_rest \ {found_cui}
              /\ hc_stack' = <<HcFrame({op.cui}, found_cui, op.depth)>>
              /\ result' = "none"
    /\ UNCHANGED <<tl, op, hc_ret, genvars, cfgvars>>

\* has_parent_of receives the value of has_child_of: True is returned
HasParentOfRecv ==
    /\ op.name = "has_parent_of"
    /\ hc_stack = <<>>
    /\ hc_ret # "none"
    /\ result = "none"
    /\ result' = (IF hc_ret = "True" THEN "True" ELSE "none")
    /\ hc_ret' = "none"
    /\ UNCHANGED <<tl, op, hc_stack, hp_rest, genvars, cfgvars>>

\* ------------------------------------------ get_applicable_targets
CuiLists == {<<"A">>, <<"A", "B">>}

NameLists == {<<"a">>, <<"b", "c">>}

TidLists == SeqsUpTo(Tids, MaxVals)

CuiFilters == {TypedFilter(t, v) : t \in {"CUI", "CUI_AND_CHILDREN"}, v \in CuiLists}

\* the filters evaluated: the base filters, and hierarchical filters whose
\* delegate is a base filter
EvalBaseFilters ==
    CuiFilters \cup {TypedFilter("NAME", v) : v \in NameLists}
               \cup {TypedFilter("TYPE_ID", v) : v \in TidLists}

EvalDelegates ==
    CuiFilters \cup {TypedFilter("NAME", <<"a">>), TypedFilter("TYPE_ID", <<"T1", "T2">>)}

EvalHierFilters ==
    {CUIWithChildFilter("CUI_AND_CHILDREN", g, d, <<>>) : g \in EvalDelegates, d \in 0..MaxDepth}

InputTargets == {TargetInfo("A", "a"), TargetInfo("B", "b"), TargetInfo("C", "c")}

Inputs == SeqsUpTo(InputTargets, MaxInput)

\* the filter whose loop pulls from in_gen: the filter itself, or the
\* delegate of a hierarchical filter
Stage(f) == IF f.cls = "CUIWithChildFilter" THEN f.delegate ELSE f

\* the tests of the first two loops of TypedFilter.get_applicable_targets
Matches(f, t) ==
    IF f.type \in {"CUI", "CUI_AND_CHILDREN"} THEN t.cui \in Range(f.values)
    ELSE IF f.type = "NAME" THEN t.val \in Range(f.values)
    ELSE FALSE

\* the tids of the third loop
TidsOf(cui) == IF cui \in DOMAIN tl.cui2type_ids THEN tl.cui2type_ids[cui] ELSE <<>>

\* f.get_applicable_targets(translation, in_gen): the generator is created,
\* none of its code has run
StartFilter ==
    /\ op = Idle
    /\ \E f \in EvalBaseFilters \cup EvalHierFilters, input \in Inputs :
        /\ op' = [name |-> "filter"]
        /\ flt' = f
        /\ in_gen' = input
    /\ epc' = "loop"
    /\ UNCHANGED <<tl, hasvars, pulled, reqs, want, out, ti, ti_idx, tids_rest, dcont,
                   frames, error, cfgvars>>

\* the consumer calls next() on the generator
Request ==
    /\ op.name = "filter"
    /\ ~want
    /\ epc \notin {"done", "error"}
    /\ want' = TRUE
    /\ reqs' = reqs + 1
    /\ UNCHANGED <<tl, op, hasvars, flt, in_gen, pulled, out, epc, ti, ti_idx, tids_rest,
                   dcont, frames, error, cfgvars>>

\* `yield ti` of the stage that pulls, ti being element idx of in_gen and
\* npulled elements having been pulled: a base filter hands ti to the consumer
\* and is suspended at k; a hierarchical filter receives ti from its
\* delegate (suspended at k), hands it out and is suspended before
\* `yield from self.get_children_of(...)`
YieldTi(t, idx, npulled, k) ==
    /\ out' = Append(out, [ti |-> t, pulled |-> npulled, src |-> idx])
    /\ want' = FALSE
    /\ IF flt.cls = "CUIWithChildFilter"
       THEN epc' = "expand" /\ dcont' = k
       ELSE epc' = k /\ dcont' = dcont

\* a loop that fetches the following element before it yields the current
PullAhead ==
    /\ op.name = "filter" /\ want /\ epc = "loop"
    /\ IF pulled = Len(in_gen)
       THEN /\ epc' = "done" /\ want' = FALSE
            /\ UNCHANGED <<pulled, out, ti, ti_idx, tids_rest, dcont>>
       ELSE LET t == in_gen[pulled + 1] IN
            /\ pulled' = IF pulled + 2 <= Len(in_gen) THEN pulled + 2 ELSE pulled + 1
            /\ ti' = t
            /\ ti_idx' = pulled + 1
            /\ IF Stage(flt).type = "TYPE_ID"
               THEN /\ tids_rest' = TidsOf(t.cui) /\ epc' = "tids"
                    /\ UNCHANGED <<out, want, dcont>>
               ELSE /\ tids_rest' = tids_rest
                    /\ IF Matches(Stage(flt), t)
                       THEN YieldTi(t, pulled + 1, pulled', "loop")
                       ELSE UNCHANGED <<out, want, epc, dcont>>
    /\ UNCHANGED <<tl, op, hasvars, flt, in_gen, reqs, frames, error, cfgvars>>

\* `for ti in in_gen` of TypedFilter.get_applicable_targets asks for the
\* next element: the generator ends when there is none; else the body runs
\* up to its yield (CUI, CUI_AND_CHILDREN, NAME) or to the loop over the tids
Pull ==
    /\ op.name = "filter" /\ want /\ epc = "loop"
    /\ IF pulled = Len(in_gen)
       THEN /\ epc' = "done" /\ want' = FALSE
            /\ UNCHANGED <<pulled, out, ti, ti_idx, tids_rest, dcont>>
       ELSE LET t == in_gen[pulled + 1] IN
            /\ pulled' = pulled + 1
            /\ ti' = t
            /\ ti_idx' = pulled + 1
            /\ IF Stage(flt).type = "TYPE_ID"
               THEN /\ tids_rest' = TidsOf(t.cui) /\ epc' = "tids"
                    /\ UNCHANGED <<out, want, dcont>>
               ELSE /\ tids_rest' = tids_rest
                    /\ IF Matches(Stage(flt), t)
                       THEN YieldTi(t, pulled + 1, pulled + 1, "loop")
                       ELSE UNCHANGED <<out, want, epc, dcont>>
    /\ UNCHANGED <<tl, op, hasvars, flt, in_gen, reqs, frames, error, cfgvars>>

\* a loop over the tids that yields ti at most once
TidNextOnce ==
    /\ op.name = "filter" /\ want /\ epc = "tids"
    /\ IF tids_rest = <<>>
       THEN epc' = "loop" /\ UNCHANGED <<tids_rest, out, want, dcont>>
       ELSE IF Head(tids_rest) \in Range(Stage(flt).values)
            THEN tids_rest' = <<>> /\ YieldTi(ti, ti_idx, pulled, "tids")
            ELSE /\ tids_rest' = Tail(tids_rest)
                 /\ UNCHANGED <<out, want, epc, dcont>>
    /\ UNCHANGED <<tl, op, hasvars, flt, in_gen, pulled, reqs, ti, ti_idx, frames, error,
                   cfgvars>>

\* `for tid in tids` asks for the next tid: the loop ends when there is none; ti is yielded when the tid is requested
TidNext ==
    /\ op.name = "filter" /\ want /\ epc = "tids"
    /\ IF tids_rest = <<>>
       THEN epc' = "loop" /\ UNCHANGED <<tids_rest, out, want, dcont>>
       ELSE /\ tids_rest' = Tail(tids_rest)
            /\ IF Head(tids_rest) \in Range(Stage(flt).values)
               THEN YieldTi(ti, ti_idx, pulled, "tids")
               ELSE UNCHANGED <<out, want, epc, dcont>>
    /\ UNCHANGED <<tl, op, hasvars, flt, in_gen, pulled, reqs, ti, ti_idx, frames, error,
                   cfgvars>>

\* a call of get_children_of
GcFrame(cui, cur_depth, rest) ==
    [cui |-> cui, cur_depth |-> cur_depth, rest |-> rest, child |-> "", names |-> <<>>]

\* self.get_children_of(translation, cui, cur_depth) starts to run:
\* translation.cui2children[cui] raises KeyError when cui has no entry
get_children_of(cui, cur_depth) ==
    IF cui \in DOMAIN tl.cui2children
    THEN /\ frames' = Append(frames, GcFrame(cui, cur_depth, tl.cui2children[cui]))
         /\ epc' = "children"
         /\ error' = "none"
         /\ want' = want
    ELSE /\ frames' = Append(frames, GcFrame(cui, cur_depth, <<>>))
         /\ epc' = "error"
         /\ error' = "KeyError(cui2children)"
         /\ want' = FALSE

\* CUIWithChildFilter.get_applicable_targets resumes after `yield ti`:
\* yield from self.get_children_of(translation, ti.cui, cur_depth=1)
Expand ==
    /\ op.name = "filter" /\ want /\ epc = "expand"
    /\ get_children_of(ti.cui, 1)
    /\ UNCHANGED <<tl, op, hasvars, flt, in_gen, pulled, reqs, out, ti, ti_idx, tids_rest,
                   dcont, cfgvars>>

\* `for child in translation.cui2children[cui]` asks for the next child:
\* when there is none the call returns, to the
\* call that made it or to the loop over the delegate's targets; else
\* translation.targets_for(child) starts, and self.cui2names[child] raises
\* KeyError when child has no names
ChildNext ==
    /\ op.name = "filter" /\ want /\ epc = "children"
    /\ LET f == Top(frames) IN
       IF f.rest = <<>>
       THEN /\ frames' = Pop(frames)
            /\ epc' = (IF Len(frames) = 1 THEN dcont ELSE "children")
            /\ UNCHANGED <<want, error>>
       ELSE LET child == Head(f.rest) IN
            IF child \in DOMAIN tl.cui2names
            THEN /\ frames' = SetTop(frames, [f EXCEPT !.rest = Tail(f.rest),
                                                       !.child = child,
                                                       !.names = tl.cui2names[child]])
                 /\ epc' = "names"
                 /\ UNCHANGED <<want, error>>
            ELSE /\ frames' = SetTop(frames, [f EXCEPT !.rest = Tail(f.rest),
                                                       !.child = child])
                 /\ epc' = "error"
                 /\ error' = "KeyError(cui2names)"
                 /\ want' = FALSE
    /\ UNCHANGED <<tl, op, hasvars, flt, in_gen, pulled, reqs, out, ti, ti_idx, tids_rest,
                   dcont, cfgvars>>

\* get_children_of that goes one level further than depth
NameNextDeep ==
    /\ op.name = "filter" /\ want /\ epc = "names"
    /\ LET f == Top(frames) IN
       IF f.names = <<>>
       THEN /\ IF f.cur_depth <= flt.depth
               THEN get_children_of(f.child, f.cur_depth + 1)
               ELSE epc' = "children" /\ UNCHANGED <<frames, want, error>>
            /\ out' = out
       ELSE /\ frames' = SetTop(frames, [f EXCEPT !.names = Tail(f.names)])
            /\ out' = Append(out, [ti |-> TargetInfo(f.child, Head(f.names)),
                                   pulled |-> pulled, src |-> ti_idx])
            /\ want' = FALSE
            /\ UNCHANGED <<epc, error>>
    /\ UNCHANGED <<tl, op, hasvars, flt, in_gen, pulled, reqs, ti, ti_idx, tids_rest,
                   dcont, cfgvars>>

\* `yield from translation.targets_for(child)` asks for the next name and
\* yields TargetInfo(child, name); when there
\* is none, `if cur_depth < self.depth` decides whether get_children_of is
\* called for the child
NameNext ==
    /\ op.name = "filter" /\ want /\ epc = "names"
    /\ LET f == Top(frames) IN
       IF f.names = <<>>
       THEN /\ IF f.cur_depth < flt.depth
               THEN get_children_of(f.child, f.cur_depth + 1)
               ELSE epc' = "children" /\ UNCHANGED <<frames, want, error>>
            /\ out' = out
       ELSE /\ frames' = SetTop(frames, [f EXCEPT !.names = Tail(f.names)])
            /\ out' = Append(out, [ti |-> TargetInfo(f.child, Head(f.names)),
                                   pulled |-> pulled, src |-> ti_idx])
            /\ want' = FALSE
            /\ UNCHANGED <<epc, error>>
    /\ UNCHANGED <<tl, op, hasvars, flt, in_gen, pulled, reqs, ti, ti_idx, tids_rest,
                   dcont, cfgvars>>

\* the client drops the result of the call, or the generator it no longer
\* pulls from
Finish ==
    /\ \/ op.name \in {"has_child_of", "has_parent_of"} /\ result # "none"
       \/ op.name = "filter" /\ ~want
    /\ op' = Idle
    /\ hc_stack' = <<>> /\ hc_ret' = "none" /\ hp_rest' = {} /\ result' = "none"
    /\ flt' = NoFilter /\ in_gen' = <<>> /\ pulled' = 0 /\ reqs' = 0 /\ want' = FALSE
    /\ out' = <<>> /\ epc' = "none" /\ ti' = NoTarget /\ ti_idx' = 0 /\ tids_rest' = <<>>
    /\ dcont' = "none" /\ frames' = <<>> /\ error' = "none"
    /\ UNCHANGED <<tl, cfgvars>>

InitTrav == CfgFresh /\ tl \in Lookups /\ TravIdle

NextTrav ==
    \/ CallHasChildOf \/ CallHasParentOf
    \/ HasChildOfBody \/ HasChildOfAnyNext \/ HasChildOfAnyRecv \/ HasChildOfReturn
    \/ HasParentOfNext \/ HasParentOfRecv
    \/ StartFilter \/ Request \/ Pull \/ TidNext \/ Expand \/ ChildNext \/ NameNext
    \/ Finish

SpecTrav == InitTrav /\ [][NextTrav]_vars

\* the steps of the code that runs: a call that has started, and a generator
\* that has been asked for an output, go on running
Run ==
    \/ HasChildOfBody \/ HasChildOfAnyNext \/ HasChildOfAnyRecv \/ HasChildOfReturn
    \/ HasParentOfNext \/ HasParentOfRecv
    \/ Pull \/ TidNext \/ Expand \/ ChildNext \/ NameNext

FairSpecTrav == SpecTrav /\ WF_vars(Run)

\* ------------------------------------------------------ specifications
InitCfg == CfgFresh /\ tl = EmptyLookup /\ TravIdle

NextCfg ==
    \/ NewTypedFilter /\ UNCHANGED travvars
    \/ NewCUIWithChildFilter /\ UNCHANGED travvars
    \/ OneFromInput /\ UNCHANGED travvars
    \/ ToDict /\ UNCHANGED travvars
    \/ LoadDict /\ UNCHANGED travvars
    \/ FromDict /\ UNCHANGED travvars
    \/ Discard /\ UNCHANGED travvars

SpecCfg == InitCfg /\ [][NextCfg]_vars

\* ------------------------------------------- properties of configuration
\* the filters a parse has returned, each with the value it was parsed from
Returned ==
    (IF path = "one_from_input" /\ IsFilter(cur)
     THEN {[filt |-> cur, vals |-> inp.vals]} ELSE {})
    \cup
    (IF parsed.cls = "List"
     THEN {[filt |-> parsed.items[i], vals |-> ser.items[i][2]] : i \in DOMAIN parsed.items}
     ELSE {})

\* a filter and, when it is hierarchical, its delegate and the delegate's
Nested(f) ==
    {f} \cup (IF f.cls = "CUIWithChildFilter"
              THEN {f.delegate} \cup (IF f.delegate.cls = "CUIWithChildFilter"
                                       THEN {f.delegate.delegate} ELSE {})
              ELSE {})

\* every filter object that exists in the state
Existing ==
    UNION {Nested(f) : f \in (IF IsFilter(cur) THEN {cur} ELSE {})
                              \cup {r.filt : r \in Returned}}

Hierarchical(S) == {f \in S : f.cls = "CUIWithChildFilter"}

\* the filters of the data model: a base filter, or a hierarchical filter of
\* kind CUI_AND_CHILDREN whose own values are the default empty list
Canonical(f) ==
    f.cls = "CUIWithChildFilter" => f.type = "CUI_AND_CHILDREN" /\ f.values = <<>>

Equivalent(g, f) ==
    /\ g.cls = f.cls
    /\ g.type = f.type
    /\ g.values = f.values
    /\ f.cls = "CUIWithChildFilter" =>
          g.depth = f.depth /\ g.delegate.values = f.delegate.values

\* C1: from_dict(f.to_dict()) is a list of exactly one filter, equivalent to
\* f (same class, kind and values; for a hierarchical filter of kind
\* CUI_AND_CHILDREN with default own values also the same depth and the same
\* delegate values)
C1_RoundTrip ==
    (IsFilter(src) /\ Canonical(src) /\ parsed # NoResult) =>
        /\ parsed.cls = "List"
        /\ Len(parsed.items) = 1
        /\ Equivalent(parsed.items[1], src)

C1_Witness ==
    /\ src.cls = "CUIWithChildFilter"
    /\ Canonical(src)
    /\ src.depth = 2
    /\ src.delegate.type = "CUI"
    /\ Len(src.delegate.values) = 2
    /\ parsed.cls = "List"

InClass(vals) == vals.k = "str" \/ vals.k = "dict" \/ (vals.k = "list" /\ vals.l # <<>>)

\* C6 as claimed: a returned filter has empty own values iff its kind is
\* CUI_AND_CHILDREN
C6_EmptyIffKind ==
    \A r \in Returned : InClass(r.vals) =>
        (r.filt.values = <<>> <=> r.filt.type = "CUI_AND_CHILDREN")

\* C6 as amended: a returned filter has empty own values iff it is the
\* hierarchical variant, the hierarchical variant has kind CUI_AND_CHILDREN,
\* and a filter of kind TYPE_ID, CUI or NAME has non-empty values
C6_EmptyIffHierarchical ==
    \A r \in Returned : InClass(r.vals) =>
        /\ r.filt.values = <<>> <=> r.filt.cls = "CUIWithChildFilter"
        /\ r.filt.cls = "CUIWithChildFilter" => r.filt.type = "CUI_AND_CHILDREN"
        /\ r.filt.type \in {"TYPE_ID", "CUI", "NAME"} => r.filt.values # <<>>

C6_Witness ==
    /\ path = "one_from_input"
    /\ inp.vals = Str("A")
    /\ cur.cls = "TypedFilter"
    /\ cur.type = "CUI_AND_CHILDREN"
    /\ cur.values = <<"A">>

\* ---------------------------------------------- properties of traversal
Max(a, b) == IF a >= b THEN a ELSE b

\* the children of the members of S
Hop(S) == UNION {Range(tl.cui2children[x]) : x \in S \cap DOMAIN tl.cui2children}

\* the CUIs exactly n child hops away from a member of S
RECURSIVE HopN(_, _)
HopN(S, n) == IF n = 0 THEN S ELSE Hop(HopN(S, n - 1))

\* the CUIs reachable from c in between 1 and d child hops
Within(c, d) == UNION {HopN({c}, n) : n \in 1..d}

\* the (cui, name) pairs of the CUIs reachable from c in 1..d child hops
DescPairs(c, d) ==
    UNION {{TargetInfo(x, n) : n \in Range(tl.cui2names[x])} :
              x \in Within(c, d) \cap DOMAIN tl.cui2names}

\* the outputs that stem from element i of the input
Group(i) == {k \in DOMAIN out : out[k].src = i}

HierRun ==
    /\ op.name = "filter"
    /\ flt.cls = "CUIWithChildFilter"
    /\ flt.delegate.type \in {"CUI", "CUI_AND_CHILDREN"}
    /\ flt.depth >= 1

C3_HasChildOf ==
    (op.name = "has_child_of" /\ result # "none" /\ op.depth >= 1) =>
        /\ result = Bool(Within(op.cui, op.depth) \cap op.found_cuis # {})
        /\ op.cui \notin DOMAIN tl.cui2children => result = "False"

C3_Witness ==
    /\ op.name = "has_child_of"
    /\ op.cui = "A" /\ op.depth = 2 /\ op.found_cuis = {"C"}
    /\ tl.cui2children["A"] = <<"B">>
    /\ "B" \in DOMAIN tl.cui2children /\ tl.cui2children["B"] = <<"C">>
    /\ result = "True"

\* C4 as claimed: has_parent_of(found_cuis, cui, depth) returns True when a
\* member of found_cuis is reachable from cui in 1..depth child hops
C4_AncestorOfMember ==
    (op.name = "has_parent_of" /\ result # "none" /\ op.depth >= 1
        /\ Within(op.cui, op.depth) \cap op.found_cuis # {}) => result = "True"

\* C4 as amended: has_parent_of(found_cuis, cui, depth) with depth >= 1
\* returns True iff cui is reachable from a member of found_cuis in 1..depth
\* child hops, i.e. a member of found_cuis is an ancestor of cui
C4_MemberIsAncestor ==
    (op.name = "has_parent_of" /\ result # "none" /\ op.depth >= 1) =>
        result = Bool(\E m \in op.found_cuis : op.cui \in Within(m, op.depth))

C4_Witness ==
    /\ op.name = "has_parent_of"
    /\ op.cui = "C" /\ op.depth = 2 /\ op.found_cuis = {"A"}
    /\ tl.cui2children["A"] = <<"B">>
    /\ "B" \in DOMAIN tl.cui2children /\ tl.cui2children["B"] = <<"C">>
    /\ result = "True"

\* the outputs a TYPE_ID filter owes for the input from element i on
RECURSIVE TypeIdOutput(_)
TypeIdOutput(i) ==
    IF i > Len(in_gen) THEN <<>>
    ELSE [k \in 1..Cardinality(Range(TidsOf(in_gen[i].cui)) \cap Range(flt.values)) |-> in_gen[i]]
         \o TypeIdOutput(i + 1)

\* C7: a TYPE_ID filter that has run to its end has emitted each input
\* target once per type_id of its cui that is among the values (no type_id
\* when the cui has no entry), in input order
C7_TypeIdMultiplicity ==
    (op.name = "filter" /\ flt.cls = "TypedFilter" /\ flt.type = "TYPE_ID" /\ epc = "done") =>
        [k \in DOMAIN out |-> out[k].ti] = TypeIdOutput(1)

C7_Witness ==
    /\ op.name = "filter" /\ flt.cls = "TypedFilter" /\ flt.type = "TYPE_ID"
    /\ epc = "done"
    /\ Range(flt.values) = {"T1", "T2"}
    /\ in_gen = <<TargetInfo("B", "b"), TargetInfo("A", "a")>>
    /\ out[1].ti = TargetInfo("A", "a")
    /\ Len(out) = 2

\* C8: no evaluation of a filter ends in an error raised because a cui has
\* no entry in cui2type_ids or no entry in cui2children
C8_NoMissingEntryError ==
    error \notin {"KeyError(cui2type_ids)", "KeyError(cui2children)"}

\* C9: every output was handed out when exactly the input elements up to
\* the one it stems from had been pulled, and nothing is pulled before the
\* first output is asked for
C9_Lazy ==
    op.name = "filter" =>
        /\ \A k \in DOMAIN out : out[k].pulled = out[k].src
        /\ reqs = 0 => pulled = 0
        /\ pulled <= Len(in_gen)

C9_Witness ==
    /\ op.name = "filter"
    /\ flt.cls = "CUIWithChildFilter"
    /\ Len(in_gen) = 2
    /\ Len(out) = 2
    /\ out[2].ti.cui # in_gen[1].cui
    /\ ~want
    /\ pulled = 1

NestingBound ==
    /\ op.name \in {"has_child_of", "has_parent_of"} => Len(hc_stack) <= Max(op.depth, 1)
    /\ (op.name = "filter" /\ flt.cls = "CUIWithChildFilter") =>
          Len(frames) <= Max(flt.depth, 1)

\* C10: no more than max(depth, 1) calls of has_child_of, and no more than
\* max(depth, 1) calls of get_children_of, are ever active at once; every
\* call of has_child_of / has_parent_of returns, and every request for the
\* next output of a filter is answered (an output, the end or an exception)
C10_BoundedAndTerminates ==
    /\ []NestingBound
    /\ (op.name \in {"has_child_of", "has_parent_of"}) ~> (result # "none")
    /\ want ~> ~want

C10_Witness ==
    /\ op.name = "has_child_of"
    /\ op.cui = "A" /\ op.depth = 2 /\ op.found_cuis = {"C"}
    /\ tl.cui2children["A"] = <<"B">>
    /\ "B" \in DOMAIN tl.cui2children /\ tl.cui2children["B"] = <<"A">>
    /\ Len(hc_stack) = 2
====
